---------------------------- MODULE Spec2Model ----------------------------
(***************************************************************************)
(* The meta-training control loop of imaml.py: main() dispatches on the    *)
(* algorithm name, optionally loads a checkpoint, and then runs num_epoch  *)
(* epochs.  Each epoch is run_epoch (train, valid on the validation        *)
(* stream, valid on the test stream) wrapped by BestTracker, followed by   *)
(* the log append, the conditional checkpoint save and the optional        *)
(* learning-rate step.                                                     *)
(*                                                                         *)
(* Metric values are fixed-point numbers in units of 10^-5; np.round(x, 4) *)
(* rounds to a multiple of Scale.  np.mean of an empty list is NaN.        *)
(* BestTracker, dict2tsv and the learner classes live in utils and gbml,   *)
(* which are not part of the source at hand; they are modelled from the    *)
(* specification of their interface.                                       *)
(***************************************************************************)
EXTENDS Integers, Sequences, FiniteSets, TLC

\* ------------------------------------------------------------- bounds
MaxEpochs == 2
MaxBudget == 1
\* a stream may hold up to two batches more than the largest budget
MaxStream == MaxBudget + 2

\* ---------------------------------------------------------- constants
\* fixed-point units per step of the fourth decimal (np.round(.., 4))
Scale == 10
\* np.mean([]) : not a number
NaN == -1
\* BestState before epoch 0: below every accuracy
BestInit == -2
NoEpoch == -1

\* variant: the dispatch chain compares the names without regard to case
KnownAlgs_IgnoresCase ==
  {"MAML", "Reptile", "Neumann", "CAVIA", "iMAML", "FOMAML", "maml"}

\* the names the dispatch chain compares args.alg with
KnownAlgs == {"MAML", "Reptile", "Neumann", "CAVIA", "iMAML", "FOMAML"}
\* algorithm names given on the command line: one the dispatch chain knows
\* and one it does not
AlgInputs == {"MAML", "SGD"}

\* what outer_loop(batch, is_train=True) may return: (loss, acc, grad)
TrainOutcomes == { <<100000, 50000, 0>>, <<50004, 75000, 125>> }
\* what outer_loop(batch, is_train=False) may return: (loss, acc)
EvalOutcomes == { <<200000, 30000>>, <<100000, 80000>> }
\* outer_loop raising instead of returning
Raise == <<"raise">>

ArgInputs ==
  [ alg : AlgInputs,
    load : BOOLEAN,
    load_encoder : BOOLEAN,
    lr_sched : BOOLEAN,
    num_epoch : 0..MaxEpochs,
    num_train_batches : 0..MaxBudget,
    num_valid_batches : 0..MaxBudget ]

\* names the dispatch chain does not know: another optimiser, a known name
\* in lower case, the empty string
UnknownAlgs == {"SGD", "maml", ""}

\* command lines for the dispatch: every known name and the unknown ones,
\* with epochs short enough to run to the end
DispatchArgs ==
  [ alg : {"MAML", "Reptile", "Neumann", "CAVIA", "iMAML", "FOMAML"}
            \cup UnknownAlgs,
    load : BOOLEAN,
    load_encoder : BOOLEAN,
    lr_sched : BOOLEAN,
    num_epoch : {0, 1},
    num_train_batches : {0},
    num_valid_batches : {0} ]

\* the learner and the streams of a run: what outer_loop may return, whether
\* it may raise, and how many batches a dataloader may yield
FreeEnv ==
  [ train_out |-> TrainOutcomes,
    eval_out |-> EvalOutcomes,
    raises |-> TRUE,
    lens |-> 0..MaxStream ]

\* a learner that returns loss 1.0, acc 0.5, grad 0.0 on every training
\* batch and loss 2.0, acc 0.3 on every evaluation batch, and never raises;
\* every stream yields at least one batch
StubEnv ==
  [ train_out |-> { <<100000, 50000, 0>> },
    eval_out |-> { <<200000, 30000>> },
    raises |-> FALSE,
    lens |-> 1..(MaxStream + 1) ]

\* --num_train_batches 2 --num_valid_batches 1
ScenarioArgs ==
  [ alg : {"MAML", "iMAML"},
    load : BOOLEAN,
    load_encoder : BOOLEAN,
    lr_sched : BOOLEAN,
    num_epoch : 1..MaxEpochs,
    num_train_batches : {2},
    num_valid_batches : {1} ]

\* ------------------------------------------------------ pure functions
RECURSIVE Sum(_)
Sum(s) == IF s = <<>> THEN 0 ELSE Head(s) + Sum(Tail(s))

\* np.round(x, 4) of the exact quotient num / den (den > 0, num >= 0):
\* nearest multiple of Scale, ties to the even multiple
RoundHalfEven(num, den) ==
  LET d == den * Scale
      q == num \div d
      r == num % d
  IN  IF 2 * r < d THEN q * Scale
      ELSE IF 2 * r > d THEN (q + 1) * Scale
      ELSE IF q % 2 = 0 THEN q * Scale ELSE (q + 1) * Scale

\* variant: every value is rounded to 4 decimals before it is averaged
RoundMean_RoundsEach(list) ==
  IF Len(list) = 0 THEN NaN
  ELSE RoundHalfEven(Sum([ i \in 1..Len(list) |-> RoundHalfEven(list[i], 1) ]),
                     Len(list))

\* variant: the mean divides by one more than the number of values
RoundMean_OffByOne(list) ==
  IF Len(list) = 0 THEN NaN ELSE RoundHalfEven(Sum(list), Len(list) + 1)

\* np.round(np.mean(list), 4)
RoundMean(list) ==
  IF Len(list) = 0 THEN NaN ELSE RoundHalfEven(Sum(list), Len(list))

\* the exact mean lies half way between two multiples of Scale
OnTie(list) ==
  /\ Len(list) > 0
  /\ 2 * (Sum(list) % (Len(list) * Scale)) = Len(list) * Scale

\* the side on which the float64 mean falls of the exact mean: the rounding
\* errors of the summation depend on the order of the values
FloatErr == {-1, 0, 1}

\* np.round(np.mean(list), 4) in float64, the mean having fallen on side e:
\* only on a tie does the side decide
RoundMeanFloat(list, e) ==
  IF OnTie(list) /\ e # 0
  THEN (Sum(list) \div (Len(list) * Scale)) * Scale + (IF e > 0 THEN Scale ELSE 0)
  ELSE RoundMean(list)

\* variant: the stop check counts batches instead of comparing the index
BreakCond_CountsBatches(batch_idx, budget) == batch_idx + 1 >= budget

\* the loop's stop check
BreakCond(batch_idx, budget) == batch_idx >= budget

\* variant: valid runs the learner in training mode
ValidIsTrain_Training == TRUE

\* the is_train flag each phase hands to outer_loop
TrainIsTrain == TRUE
ValidIsTrain == FALSE

\* the learner's parameters after outer_loop: a version counter that an
\* outer update advances
OuterLoopParams(p, is_train) == IF is_train THEN p + 1 ELSE p

\* variant: the loop swallows the exception and goes on with the next batch
AfterFailure_Swallowed(at) == at

\* an exception raised by outer_loop is caught nowhere
AfterFailure(at) == "aborted"

\* range(args.num_epoch)
NextEpoch(e) == e + 1

\* variant: the test stream is evaluated before the validation stream
PhaseOrder_TestFirst == <<"train", "test", "valid">>

\* run_epoch's phase calls, in order
PhaseOrder == <<"train", "valid", "test">>

\* variant: res['valid_acc'] is filled from the test phase
AssembleRes_TestAsValid(e, tr, va, te) ==
  [ epoch |-> e,
    train_loss |-> tr[1], train_acc |-> tr[2], train_grad |-> tr[3],
    valid_loss |-> va[1], valid_acc |-> te[2],
    test_loss |-> te[1], test_acc |-> te[2] ]

\* variant: res['valid_acc'] is filled from the train phase
AssembleRes_TrainAsValid(e, tr, va, te) ==
  [ epoch |-> e,
    train_loss |-> tr[1], train_acc |-> tr[2], train_grad |-> tr[3],
    valid_loss |-> va[1], valid_acc |-> tr[2],
    test_loss |-> te[1], test_acc |-> te[2] ]

\* variant: res['epoch'] is not filled from the loop variable
AssembleRes_EpochZero(e, tr, va, te) ==
  [ epoch |-> 0,
    train_loss |-> tr[1], train_acc |-> tr[2], train_grad |-> tr[3],
    valid_loss |-> va[1], valid_acc |-> va[2],
    test_loss |-> te[1], test_acc |-> te[2] ]

\* variant: the training loss and accuracy are stored under each other's key
AssembleRes_LossAccSwapped(e, tr, va, te) ==
  [ epoch |-> e,
    train_loss |-> tr[2], train_acc |-> tr[1], train_grad |-> tr[3],
    valid_loss |-> va[1], valid_acc |-> va[2],
    test_loss |-> te[1], test_acc |-> te[2] ]

\* the OrderedDict res
AssembleRes(e, tr, va, te) ==
  [ epoch |-> e,
    train_loss |-> tr[1], train_acc |-> tr[2], train_grad |-> tr[3],
    valid_loss |-> va[1], valid_acc |-> va[2],
    test_loss |-> te[1], test_acc |-> te[2] ]

\* a > b on floats: false when either side is NaN
Gt(a, b) == a # NaN /\ b # NaN /\ a > b

\* BestTracker: strict improvement of valid_acc
BestTrackerCall(b, r) ==
  IF Gt(r.valid_acc, b.value)
  THEN [ best |-> [value |-> r.valid_acc, epoch |-> r.epoch], is_best |-> TRUE ]
  ELSE [ best |-> b, is_best |-> FALSE ]

\* dict2tsv(res, filename): one more row at the end of the file
Dict2Tsv(rows, r) == Append(rows, r)

\* model.save(tag): a snapshot of the learner, taken in epoch e
ModelSave(p, e) == [ params |-> p, epoch |-> e ]

\* variant: the checkpoint is saved in every epoch
SaveCond_Always(isb) == TRUE

\* the checkpoint save is attempted only for a new best
SaveCond(isb) == isb

\* variant: the checkpoint is saved before the row is written
StepsAfterEpoch_SaveFirst == <<"save", "log", "sched">>

\* what main does with the result of run_epoch, in order
StepsAfterEpoch == <<"log", "save", "sched">>

\* the step that follows step s of an epoch; after the last, the loop head
StepAfter(s) ==
  LET i == CHOOSE j \in 1..Len(StepsAfterEpoch) : StepsAfterEpoch[j] = s
  IN  IF i = Len(StepsAfterEpoch) THEN "loop" ELSE StepsAfterEpoch[i + 1]

\* variant: the learning-rate step is taken in every epoch
SchedCond_Always(flag) == TRUE

\* the learning-rate step is taken only when args.lr_sched is set
SchedCond(flag) == flag

\* ---------------------------------------------------------------- state
VARIABLES
  args,        \* the parsed command line
  pc,          \* where main() stands
  err,         \* the exception that ended the run, or "none"
  model,       \* the learner class built by the dispatch, or "none"
  loaded,      \* which load ran: "none", "load", "load_encoder"
  params,      \* version of the learner's parameters
  lr_steps,    \* number of lr_sched() calls
  epoch,       \* loop variable of main
  it,          \* iterator over the current phase's dataloader
  batch_idx,   \* loop variable of the current phase
  broke,       \* the current phase's loop hit its break
  loss_list, acc_list, grad_list,
  tsum, vsum,  \* (train_loss, train_acc, train_grad), (valid_loss, valid_acc)
  res, is_best,
  best,        \* BestTracker's state
  log,         \* rows of the result file
  ckpt,        \* the saved checkpoint, or NoCkpt
  calls,       \* history: batches handed to outer_loop in the current phase
  hist,        \* history: per tracked epoch (valid_acc, is_best, params)
  trace,       \* history: steps of main, in order
  env,         \* the learner and the streams of the run
  mean_io,     \* inputs and results of the aggregation taken alone
  twin         \* two runs of the epoch tail side by side

vars == << args, pc, err, model, loaded, params, lr_steps, epoch, it,
           batch_idx, broke, loss_list, acc_list, grad_list, tsum, vsum,
           res, is_best, best, log, ckpt, calls, hist, trace, env,
           mean_io, twin >>

\* the state of main
MainVars == << args, pc, err, model, loaded, params, lr_steps, epoch, it,
               batch_idx, broke, loss_list, acc_list, grad_list, tsum, vsum,
               res, is_best, best, log, ckpt, calls, hist, trace >>

\* what the steps of main leave alone
Aside == << env, mean_io, twin >>

\* mean_io and twin while main runs
Idle == [ done |-> TRUE ]

NoCkpt == [ params |-> -1, epoch |-> NoEpoch ]
NoRes == AssembleRes(NoEpoch, <<NaN, NaN, NaN>>, <<NaN, NaN>>, <<NaN, NaN>>)
NoIter == [ avail |-> 0, pos |-> 0 ]

InitMain ==
  /\ pc = "dispatch"
  /\ err = "none"
  /\ model = "none"
  /\ loaded = "none"
  /\ params = 0
  /\ lr_steps = 0
  /\ epoch = NoEpoch
  /\ it = NoIter
  /\ batch_idx = -1
  /\ broke = FALSE
  /\ loss_list = <<>> /\ acc_list = <<>> /\ grad_list = <<>>
  /\ tsum = <<NaN, NaN, NaN>> /\ vsum = <<NaN, NaN>>
  /\ res = NoRes
  /\ is_best = FALSE
  /\ best = [ value |-> BestInit, epoch |-> NoEpoch ]
  /\ log = <<>>
  /\ ckpt = NoCkpt
  /\ calls = <<>>
  /\ hist = <<>>
  /\ trace = <<>>

Init ==
  /\ args \in ArgInputs
  /\ env = FreeEnv
  /\ InitMain
  /\ mean_io = Idle
  /\ twin = Idle

\* entering a phase: fresh lists, a fresh iterator over a stream of n batches
EnterPhase(ph, n) ==
  /\ pc' = ph
  /\ it' = [ avail |-> n, pos |-> 0 ]
  /\ batch_idx' = -1
  /\ broke' = FALSE
  /\ loss_list' = <<>> /\ acc_list' = <<>> /\ grad_list' = <<>>
  /\ calls' = <<>>

Budget(ph) ==
  IF ph = "train" THEN args.num_train_batches ELSE args.num_valid_batches

\* ---------------------------------------------------------------- main
Dispatch ==
  /\ pc = "dispatch"
  /\ IF args.alg \in KnownAlgs
     THEN /\ model' = args.alg
          /\ pc' = "load"
          /\ err' = err
     ELSE /\ model' = model
          /\ pc' = "aborted"
          /\ err' = "ValueError"
  /\ UNCHANGED << args, loaded, params, lr_steps, epoch, it, batch_idx, broke,
                  loss_list, acc_list, grad_list, tsum, vsum, res, is_best,
                  best, log, ckpt, calls, hist, trace >>
  /\ UNCHANGED Aside

Load ==
  /\ pc = "load"
  /\ loaded' = IF args.load THEN "load"
               ELSE IF args.load_encoder THEN "load_encoder" ELSE "none"
  /\ pc' = "loop"
  /\ UNCHANGED << args, err, model, params, lr_steps, epoch, it, batch_idx,
                  broke, loss_list, acc_list, grad_list, tsum, vsum, res,
                  is_best, best, log, ckpt, calls, hist, trace >>
  /\ UNCHANGED Aside

\* the head of the epoch loop; a further epoch calls run_epoch, which calls
\* train
EpochHead ==
  /\ pc = "loop"
  /\ LET e == NextEpoch(epoch) IN
     IF e < args.num_epoch
     THEN /\ epoch' = e
          /\ \E n \in env.lens : EnterPhase(PhaseOrder[1], n)
          /\ trace' = Append(trace, <<e, PhaseOrder[1], "start">>)
     ELSE /\ pc' = "done"
          /\ UNCHANGED << epoch, it, batch_idx, broke, loss_list, acc_list,
                          grad_list, calls, trace >>
  /\ UNCHANGED << args, err, model, loaded, params, lr_steps, tsum, vsum,
                  res, is_best, best, log, ckpt, hist >>
  /\ UNCHANGED Aside

\* one iteration of train's loop
TrainStep ==
  /\ pc = "train"
  /\ ~broke
  /\ it.pos < it.avail
  /\ it' = [it EXCEPT !.pos = @ + 1]
  /\ batch_idx' = it.pos
  /\ calls' = Append(calls, it.pos + 1)
  /\ \E o \in env.train_out \cup (IF env.raises THEN {Raise} ELSE {}) :
       IF o = Raise
       THEN /\ pc' = AfterFailure(pc)
            /\ err' = IF pc' = "aborted" THEN "LearnerFailure" ELSE err
            /\ trace' = Append(trace, <<epoch, pc, "raised">>)
            /\ UNCHANGED << params, loss_list, acc_list, grad_list, broke >>
       ELSE /\ params' = OuterLoopParams(params, TrainIsTrain)
            /\ loss_list' = Append(loss_list, o[1])
            /\ acc_list' = Append(acc_list, o[2])
            /\ grad_list' = Append(grad_list, o[3])
            /\ broke' = BreakCond(batch_idx', args.num_train_batches)
            /\ UNCHANGED << pc, err, trace >>
  /\ UNCHANGED << args, model, loaded, lr_steps, epoch, tsum, vsum, res,
                  is_best, best, log, ckpt, hist >>
  /\ UNCHANGED Aside

\* train's loop is over: the summary is returned and run_epoch calls valid
\* on the validation stream
TrainReturn ==
  /\ pc = "train"
  /\ broke \/ it.pos = it.avail
  /\ tsum' = << RoundMean(loss_list), RoundMean(acc_list), RoundMean(grad_list) >>
  /\ \E n \in env.lens : EnterPhase(PhaseOrder[2], n)
  /\ trace' = trace \o << <<epoch, PhaseOrder[1], "end">>,
                          <<epoch, PhaseOrder[2], "start">> >>
  /\ UNCHANGED << args, err, model, loaded, params, lr_steps, epoch, vsum,
                  res, is_best, best, log, ckpt, hist >>
  /\ UNCHANGED Aside

\* one iteration of valid's loop, on the validation or the test stream
ValidStep ==
  /\ pc \in {"valid", "test"}
  /\ ~broke
  /\ it.pos < it.avail
  /\ it' = [it EXCEPT !.pos = @ + 1]
  /\ batch_idx' = it.pos
  /\ calls' = Append(calls, it.pos + 1)
  /\ \E o \in env.eval_out \cup (IF env.raises THEN {Raise} ELSE {}) :
       IF o = Raise
       THEN /\ pc' = AfterFailure(pc)
            /\ err' = IF pc' = "aborted" THEN "LearnerFailure" ELSE err
            /\ trace' = Append(trace, <<epoch, pc, "raised">>)
            /\ UNCHANGED << params, loss_list, acc_list, broke >>
       ELSE /\ params' = OuterLoopParams(params, ValidIsTrain)
            /\ loss_list' = Append(loss_list, o[1])
            /\ acc_list' = Append(acc_list, o[2])
            /\ broke' = BreakCond(batch_idx', args.num_valid_batches)
            /\ UNCHANGED << pc, err, trace >>
  /\ UNCHANGED << args, model, loaded, lr_steps, epoch, grad_list, tsum, vsum,
                  res, is_best, best, log, ckpt, hist >>
  /\ UNCHANGED Aside

\* valid on the validation stream returns; run_epoch calls valid on the test
\* stream
ValidReturn ==
  /\ pc = "valid"
  /\ broke \/ it.pos = it.avail
  /\ vsum' = << RoundMean(loss_list), RoundMean(acc_list) >>
  /\ \E n \in env.lens : EnterPhase(PhaseOrder[3], n)
  /\ trace' = trace \o << <<epoch, PhaseOrder[2], "end">>,
                          <<epoch, PhaseOrder[3], "start">> >>
  /\ UNCHANGED << args, err, model, loaded, params, lr_steps, epoch, tsum,
                  res, is_best, best, log, ckpt, hist >>
  /\ UNCHANGED Aside

\* valid on the test stream returns; run_epoch assembles res and returns it
\* through BestTracker
TestReturn ==
  /\ pc = "test"
  /\ broke \/ it.pos = it.avail
  /\ LET te == << RoundMean(loss_list), RoundMean(acc_list) >>
         r  == AssembleRes(epoch, tsum, vsum, te)
         bt == BestTrackerCall(best, r)
     IN  /\ res' = r
         /\ best' = bt.best
         /\ is_best' = bt.is_best
         /\ hist' = Append(hist, [ valid_acc |-> vsum[2],
                                   is_best |-> bt.is_best,
                                   params |-> params ])
  /\ pc' = StepsAfterEpoch[1]
  /\ trace' = Append(trace, <<epoch, PhaseOrder[3], "end">>)
  /\ UNCHANGED << args, err, model, loaded, params, lr_steps, epoch, it,
                  batch_idx, broke, loss_list, acc_list, grad_list, tsum,
                  vsum, log, ckpt, calls >>
  /\ UNCHANGED Aside

\* dict2tsv(res, filename): the row is appended, or the write fails
LogRow ==
  /\ pc = "log"
  /\ \E ok \in BOOLEAN :
       IF ok
       THEN /\ log' = Dict2Tsv(log, res)
            /\ pc' = StepAfter("log")
            /\ trace' = Append(trace, <<epoch, "log", "done">>)
            /\ err' = err
       ELSE /\ pc' = "aborted"
            /\ err' = "PersistenceFailure"
            /\ trace' = Append(trace, <<epoch, "log", "raised">>)
            /\ log' = log
  /\ UNCHANGED << args, model, loaded, params, lr_steps, epoch, it, batch_idx,
                  broke, loss_list, acc_list, grad_list, tsum, vsum, res,
                  is_best, best, ckpt, calls, hist >>
  /\ UNCHANGED Aside

\* if is_best: model.save(..), which stores the learner or fails
Save ==
  /\ pc = "save"
  /\ IF SaveCond(is_best)
     THEN \E ok \in BOOLEAN :
            IF ok
            THEN /\ ckpt' = ModelSave(params, epoch)
                 /\ pc' = StepAfter("save")
                 /\ trace' = Append(trace, <<epoch, "save", "done">>)
                 /\ err' = err
            ELSE /\ pc' = "aborted"
                 /\ err' = "PersistenceFailure"
                 /\ trace' = Append(trace, <<epoch, "save", "raised">>)
                 /\ ckpt' = ckpt
     ELSE /\ pc' = StepAfter("save")
          /\ UNCHANGED << ckpt, trace, err >>
  /\ UNCHANGED << args, model, loaded, params, lr_steps, epoch, it, batch_idx,
                  broke, loss_list, acc_list, grad_list, tsum, vsum, res,
                  is_best, best, log, calls, hist >>
  /\ UNCHANGED Aside

\* if args.lr_sched: model.lr_sched(); then back to the head of the loop
LrSched ==
  /\ pc = "sched"
  /\ IF SchedCond(args.lr_sched)
     THEN /\ lr_steps' = lr_steps + 1
          /\ trace' = Append(trace, <<epoch, "sched", "done">>)
     ELSE UNCHANGED << lr_steps, trace >>
  /\ pc' = StepAfter("sched")
  /\ UNCHANGED << args, err, model, loaded, params, epoch, it, batch_idx,
                  broke, loss_list, acc_list, grad_list, tsum, vsum, res,
                  is_best, best, log, ckpt, calls, hist >>
  /\ UNCHANGED Aside

Next ==
  \/ Dispatch
  \/ Load
  \/ EpochHead
  \/ TrainStep
  \/ TrainReturn
  \/ ValidStep
  \/ ValidReturn
  \/ TestReturn
  \/ LogRow
  \/ Save
  \/ LrSched

Spec == Init /\ [][Next]_vars

\* ------------------------------------------------- helpers for claims
Phases == {"train", "valid", "test"}

Last(s) == s[Len(s)]

\* the sequence 1, 2, .., n
Iota(n) == [ i \in 1..n |-> i ]

\* v is the mean of a non-empty list rounded to the fourth decimal
IsRoundedMean(v, list) ==
  /\ v % Scale = 0
  /\ 2 * (v * Len(list) - Sum(list)) <= Len(list) * Scale
  /\ 2 * (Sum(list) - v * Len(list)) <= Len(list) * Scale

\* the phase in pc hands its summary back in this step
PhaseReturns == pc \in Phases /\ pc' \notin {pc, "aborted"}

\* the start and end events of phases, in the order they happened
PhaseEvents == SelectSeq(trace, LAMBDA ev : ev[3] \in {"start", "end"})

\* the i-th phase event of a run: epoch by epoch train, valid, test, each
\* started and then ended
CanonEvent(i) ==
  << (i - 1) \div 6,
     CASE ((i - 1) % 6) \div 2 = 0 -> "train"
       [] ((i - 1) % 6) \div 2 = 1 -> "valid"
       [] OTHER -> "test",
     IF (i - 1) % 2 = 0 THEN "start" ELSE "end" >>

\* the checkpoint was stored in epoch e
SavedIn(e) == \E i \in 1..Len(trace) : trace[i] = <<e, "save", "done">>

\* outer_loop raised in some phase
LearnerRaised ==
  \E i \in 1..Len(trace) : trace[i][3] = "raised" /\ trace[i][2] \in Phases

\* epochs whose log append, save and schedule step are behind
Completed ==
  IF pc \in {"sched", "loop", "done"} THEN epoch + 1
  ELSE IF epoch = NoEpoch THEN 0 ELSE epoch

\* epochs whose log append is behind
RowsExpected ==
  IF pc \in {"save", "sched", "loop", "done"} THEN epoch + 1
  ELSE IF pc = "aborted" /\ trace # <<>> /\ Last(trace) = <<epoch, "save", "raised">>
       THEN epoch + 1
  ELSE IF epoch = NoEpoch THEN 0 ELSE epoch

\* the best valid_acc among the first n tracked epochs (BestInit if none)
RECURSIVE BestBefore(_)
BestBefore(n) ==
  IF n = 0 THEN BestInit
  ELSE LET b == BestBefore(n - 1)
       IN  IF Gt(hist[n].valid_acc, b) THEN hist[n].valid_acc ELSE b

\* the earliest of the first n tracked epochs that attains the best valid_acc
\* (0 if no epoch has one)
BestIdx(n) ==
  IF \A i \in 1..n : hist[i].valid_acc = NaN THEN 0
  ELSE CHOOSE i \in 1..n :
         /\ hist[i].valid_acc # NaN
         /\ \A j \in 1..n : ~Gt(hist[j].valid_acc, hist[i].valid_acc)
         /\ \A j \in 1..(i - 1) : hist[j].valid_acc # hist[i].valid_acc

StrictlyIncreasing ==
  /\ \A i \in 1..Len(hist) : hist[i].valid_acc # NaN
  /\ \A i \in 1..(Len(hist) - 1) : Gt(hist[i + 1].valid_acc, hist[i].valid_acc)

C2_BestIffStrictlyGreater ==
  \A i \in 1..Len(hist) :
    hist[i].is_best <=> Gt(hist[i].valid_acc, BestBefore(i - 1))

C2_Witness ==
  /\ Len(hist) = 2
  /\ hist[1].valid_acc = 80000 /\ hist[1].is_best
  /\ hist[2].valid_acc = 80000 /\ ~hist[2].is_best

\* ----------------------------------------------------------------- C3
\* C3 as stated: over a finished run whose valid_acc values are strictly
\* increasing, is_best is true exactly once.
C3_ExactlyOnceOverRun ==
  (pc = "done" /\ Len(hist) >= 1 /\ StrictlyIncreasing) =>
    Cardinality({ i \in 1..Len(hist) : hist[i].is_best }) = 1

\* C3 amended: while the valid_acc values of a run are strictly increasing,
\* is_best is true in every epoch (once per epoch).
C3_EveryEpochOfIncreasingRun ==
  StrictlyIncreasing => \A i \in 1..Len(hist) : hist[i].is_best

C3_Witness ==
  /\ pc = "done"
  /\ Len(hist) = 2
  /\ hist[1].valid_acc = 30000 /\ hist[2].valid_acc = 80000
  /\ hist[1].is_best /\ hist[2].is_best

\* ----------------------------------------------------------------- C4
\* C4: a phase whose stream yields no batch never returns a summary: no NaN
\* mean is produced, and no result with a NaN field is assembled or logged.
C4_EmptyPhaseRaises ==
  /\ pc \in {"valid", "test", "log", "save", "sched"} => tsum[1] # NaN
  /\ pc \in {"test", "log", "save", "sched"} => vsum[1] # NaN
  /\ pc \in {"log", "save", "sched"} => res.test_loss # NaN
  /\ \A i \in 1..Len(log) :
       /\ log[i].train_loss # NaN
       /\ log[i].valid_loss # NaN
       /\ log[i].test_loss # NaN

C6_PhaseAndEpochOrder ==
  LET pe == PhaseEvents
  IN  /\ \A i \in 1..Len(pe) : pe[i] = CanonEvent(i)
      /\ Len(pe) <= 6 * args.num_epoch
      /\ pc \in Phases => Last(pe) = <<epoch, pc, "start">>
      /\ pc \in {"log", "save", "sched"} => Last(pe) = <<epoch, "test", "end">>
      /\ calls = Iota(Len(calls))

C6_Witness ==
  /\ pc = "done"
  /\ Len(PhaseEvents) = 12

\* ----------------------------------------------------------------- C7
\* C7: the log always holds one row per epoch whose append is behind, row i
\* being that of epoch i-1, and a step never changes or removes a row.
C7_LogOneRowPerEpoch ==
  /\ [](/\ Len(log) = RowsExpected
        /\ \A i \in 1..Len(log) : log[i].epoch = i - 1)
  /\ [][ /\ Len(log') \in {Len(log), Len(log) + 1}
         /\ SubSeq(log', 1, Len(log)) = log ]_vars

C7_Witness ==
  /\ pc = "done"
  /\ Len(log) = 2
  /\ log[1].valid_acc # log[2].valid_acc

\* ----------------------------------------------------------------- C8
\* C8: the checkpoint is saved in an epoch exactly when is_best is true for
\* it, so after the completed epochs the checkpoint holds the learner of the
\* earliest epoch with the highest valid_acc among them (none if no epoch
\* has a valid_acc).
C8_CheckpointIsBest ==
  /\ \A e \in 0..(Completed - 1) : SavedIn(e) <=> hist[e + 1].is_best
  /\ \A e \in 0..(Len(hist) - 1) : SavedIn(e) => hist[e + 1].is_best
  /\ LET b == BestIdx(Completed)
     IN  IF b = 0 THEN ckpt = NoCkpt
         ELSE ckpt = [ params |-> hist[b].params, epoch |-> b - 1 ]

C8_Witness ==
  /\ pc = "done"
  /\ Len(hist) = 2
  /\ hist[1].valid_acc = 80000 /\ hist[2].valid_acc = 30000
  /\ ckpt.epoch = 0
  /\ ckpt.params # params

\* ----------------------------------------------------------------- C9
\* C9: once outer_loop has raised in a phase of epoch e the run is aborted
\* with that failure as its last step: the step changes neither log nor
\* checkpoint, epoch e has no row and no checkpoint, and nothing runs after.
C9_LearnerFailureAborts ==
  /\ [](LearnerRaised =>
          /\ pc = "aborted"
          /\ err = "LearnerFailure"
          /\ Last(trace)[1] = epoch /\ Last(trace)[3] = "raised"
          /\ Len(log) = epoch
          /\ \A i \in 1..Len(log) : log[i].epoch < epoch
          /\ ckpt.epoch # epoch
          /\ ~SavedIn(epoch))
  /\ [][ /\ (pc = "aborted" => vars' = vars)
         /\ (LearnerRaised' => log' = log /\ ckpt' = ckpt) ]_vars

C9_Witness ==
  /\ pc = "aborted"
  /\ err = "LearnerFailure"
  /\ epoch = 1
  /\ Len(log) = 1
  /\ Last(trace) = <<1, "valid", "raised">>

\* ---------------------------------------------------------------- C10
\* C10: over a stream of n batches, 1 <= n <= budget, a phase never breaks,
\* can return once the n batches are consumed, returns only then, without an
\* error, and each field it returns is the rounded mean over the n values.
C10_ShortStreamEndsNormally ==
  /\ []((pc \in Phases /\ it.avail >= 1 /\ it.avail <= Budget(pc)) =>
          /\ ~broke
          /\ it.pos <= it.avail
          /\ (it.pos = it.avail =>
                CASE pc = "train" -> ENABLED TrainReturn
                  [] pc = "valid" -> ENABLED ValidReturn
                  [] OTHER -> ENABLED TestReturn))
  /\ [][ (PhaseReturns /\ it.avail >= 1 /\ it.avail <= Budget(pc)) =>
           /\ it.pos = it.avail
           /\ Len(acc_list) = it.avail
           /\ err' = "none"
           /\ CASE pc = "train" ->
                     /\ IsRoundedMean(tsum'[1], loss_list)
                     /\ IsRoundedMean(tsum'[2], acc_list)
                     /\ IsRoundedMean(tsum'[3], grad_list)
                [] pc = "valid" ->
                     /\ IsRoundedMean(vsum'[1], loss_list)
                     /\ IsRoundedMean(vsum'[2], acc_list)
                [] OTHER ->
                     /\ IsRoundedMean(res'.test_loss, loss_list)
                     /\ IsRoundedMean(res'.test_acc, acc_list) ]_vars

C10_Witness ==
  /\ pc = "log"
  /\ err = "none"
  /\ args.num_valid_batches = 1
  /\ it.avail = 1
  /\ it.pos = 1
  /\ res.test_acc = acc_list[1]

\* ------------------------------------------------- the stub-learner run

\* main started with the stub learner and budgets 2 and 1
InitScenario ==
  /\ args \in ScenarioArgs
  /\ env = StubEnv
  /\ InitMain
  /\ mean_io = Idle
  /\ twin = Idle

SpecScenario == InitScenario /\ [][Next]_vars

\* the result the first epoch of the stub run is expected to give
StubResult ==
  [ epoch |-> 0,
    train_loss |-> 100000, train_acc |-> 50000, train_grad |-> 0,
    valid_loss |-> 200000, valid_acc |-> 30000,
    test_loss |-> 200000, test_acc |-> 30000 ]

\* C11: with a learner returning loss 1.0, acc 0.5, grad 0.0 on every training
\* batch and loss 2.0, acc 0.3 on every evaluation batch, and budgets 2 and 1,
\* the first epoch yields {epoch 0, train 1.0 / 0.5 / 0.0, valid 2.0 / 0.3,
\* test 2.0 / 0.3} with is_best true, and that is the first row logged.
C11_StubFirstEpoch ==
  /\ (epoch = 0 /\ Len(hist) = 1) => (res = StubResult /\ is_best)
  /\ Len(hist) >= 1 => (hist[1].is_best /\ hist[1].valid_acc = 30000)
  /\ Len(log) >= 1 => log[1] = StubResult
  /\ (epoch = 0 /\ pc \in {"valid", "test"}) => tsum = <<100000, 50000, 0>>
  /\ (epoch = 0 /\ pc = "test") => vsum = <<200000, 30000>>

C11_Witness ==
  /\ env = StubEnv
  /\ args.num_train_batches = 2
  /\ args.num_valid_batches = 1
  /\ epoch = 0
  /\ pc = "save"
  /\ res = StubResult
  /\ is_best
  /\ log = << StubResult >>
  /\ Len(acc_list) = 2

\* --------------------------------------------- the aggregation taken alone

MaxLen == 3

\* per-batch values of one metric: fractions below the 4th decimal, and
\* triples whose mean is half way between two 4-decimal values
MeanValues == {50004, 50005, 50006, 50008}

MeanLists == UNION { [1..n -> MeanValues] : n \in 1..MaxLen }

\* the orders in which the batches of list xs can arrive
Perms(xs) ==
  LET n == Len(xs)
  IN  { [ i \in 1..n |-> xs[p[i]] ] :
          p \in { f \in [1..n -> 1..n] : \A i, j \in 1..n : f[i] = f[j] => i = j } }

\* np.mean adds the values from left to right and float addition is
\* commutative: two orders with the same values from the third on give the
\* same float sum
SameFloatSum(xs, ys) ==
  /\ Len(xs) = Len(ys)
  /\ \A i \in 3..Len(xs) : xs[i] = ys[i]

\* one phase's list in two arrival orders, each with the side on which its
\* float mean falls
MeanInputs ==
  UNION { { [ xs |-> xs, ys |-> ys, ex |-> ex, ey |-> ey, rx |-> NaN,
              ry |-> NaN, done |-> FALSE ] :
              ys \in Perms(xs), ex \in FloatErr, ey \in FloatErr } :
          xs \in MeanLists }

InitMean ==
  /\ args = CHOOSE a \in ArgInputs : TRUE
  /\ env = FreeEnv
  /\ InitMain
  /\ twin = Idle
  /\ mean_io \in { m \in MeanInputs : SameFloatSum(m.xs, m.ys) => m.ex = m.ey }

\* lines 39-41 and 62-63 on the collected list, once per order
MeanApply ==
  /\ ~mean_io.done
  /\ mean_io' = [ mean_io EXCEPT !.rx = RoundMeanFloat(mean_io.xs, mean_io.ex),
                                 !.ry = RoundMeanFloat(mean_io.ys, mean_io.ey),
                                 !.done = TRUE ]
  /\ UNCHANGED << MainVars, env, twin >>

NextMean == MeanApply

SpecMean == InitMean /\ [][NextMean]_vars

InitDispatch ==
  /\ args \in DispatchArgs
  /\ env = FreeEnv
  /\ InitMain
  /\ mean_io = Idle
  /\ twin = Idle

SpecDispatch == InitDispatch /\ [][Next]_vars

\* C13: with an algorithm name other than MAML, Reptile, Neumann, CAVIA,
\* iMAML and FOMAML, main ends in an error at the dispatch: no learner is
\* built, no checkpoint is loaded, no phase runs, no row is logged and no
\* checkpoint is saved.
C13_UnknownAlgFailsFirst ==
  args.alg \notin {"MAML", "Reptile", "Neumann", "CAVIA", "iMAML", "FOMAML"} =>
    /\ pc \in {"dispatch", "aborted"}
    /\ pc = "aborted" => err = "ValueError"
    /\ pc = "dispatch" => err = "none"
    /\ ENABLED Dispatch \/ pc = "aborted"
    /\ model = "none"
    /\ loaded = "none"
    /\ epoch = NoEpoch
    /\ params = 0
    /\ lr_steps = 0
    /\ trace = <<>>
    /\ calls = <<>>
    /\ hist = <<>>
    /\ log = <<>>
    /\ ckpt = NoCkpt

C13_Witness ==
  /\ args.alg = "maml"
  /\ args.load
  /\ args.num_epoch = 1
  /\ pc = "aborted"
  /\ err = "ValueError"
  /\ loaded = "none"
  /\ log = <<>>

\* ------------------------------------------- two runs of the epoch tail

\* summaries the valid function may return for the validation and the test
\* stream: (loss, acc), NaN for an empty stream
TwinSummaries == { <<NaN, NaN>>, <<200000, 0>>, <<200000, 30000>>, <<100000, 80000>> }

\* summaries train may return
TwinTrain == { <<100000, 50000, 0>> }

\* two fresh runs, A and B, before their first epoch
InitTwin ==
  /\ args = CHOOSE a \in ArgInputs : TRUE
  /\ env = FreeEnv
  /\ InitMain
  /\ mean_io = Idle
  /\ twin = [ done |-> FALSE, n |-> 0,
              bestA |-> [ value |-> BestInit, epoch |-> NoEpoch ],
              bestB |-> [ value |-> BestInit, epoch |-> NoEpoch ],
              flagsA |-> <<>>, flagsB |-> <<>>,
              savesA |-> <<>>, savesB |-> <<>>,
              resA |-> NoRes, resB |-> NoRes ]

\* lines 76-85 and 151-157 in both runs: the same train and validation
\* summaries, test summaries of their own
TwinEpoch ==
  /\ twin.n < MaxEpochs
  /\ \E tr \in TwinTrain, va \in TwinSummaries, teA \in TwinSummaries,
        teB \in TwinSummaries :
       LET rA == AssembleRes(twin.n, tr, va, teA)
           rB == AssembleRes(twin.n, tr, va, teB)
           btA == BestTrackerCall(twin.bestA, rA)
           btB == BestTrackerCall(twin.bestB, rB)
       IN  twin' = [ done |-> FALSE, n |-> NextEpoch(twin.n),
                     bestA |-> btA.best, bestB |-> btB.best,
                     flagsA |-> Append(twin.flagsA, btA.is_best),
                     flagsB |-> Append(twin.flagsB, btB.is_best),
                     savesA |-> Append(twin.savesA, SaveCond(btA.is_best)),
                     savesB |-> Append(twin.savesB, SaveCond(btB.is_best)),
                     resA |-> rA, resB |-> rB ]
  /\ UNCHANGED << MainVars, env, mean_io >>

NextTwin == TwinEpoch

SpecTwin == InitTwin /\ [][NextTwin]_vars

\* C14: two runs with the same validation accuracy in every epoch and test
\* metrics of their own report the same is_best in every epoch and save the
\* checkpoint in the same epochs.
C14_TestNeverSelects ==
  /\ twin.flagsA = twin.flagsB
  /\ twin.savesA = twin.savesB
  /\ twin.bestA = twin.bestB

C14_Witness ==
  /\ twin.n = 2
  /\ twin.flagsA = <<TRUE, FALSE>>
  /\ twin.savesB = <<TRUE, FALSE>>
  /\ twin.resA.valid_acc = 0
  /\ twin.resA.test_acc = 80000
  /\ twin.resB.test_acc = NaN
  /\ twin.resA.test_loss # twin.resB.test_loss

\* ---------------------------------------------------------------- C15
\* C15: the tracker starts at the worst value; after every tracked epoch its
\* best value is the maximum valid_acc of the epochs so far and its best
\* epoch the earliest one attaining it; the first epoch of a run reports
\* is_best = true whatever its valid_acc.
C15_BestIsRunningMax ==
  /\ Len(hist) = 0 => best = [ value |-> BestInit, epoch |-> NoEpoch ]
  /\ Len(hist) >= 1 =>
       /\ hist[1].is_best
       /\ \E i \in 1..Len(hist) :
            /\ best.value = hist[i].valid_acc
            /\ best.epoch = i - 1
            /\ \A j \in 1..(i - 1) : hist[j].valid_acc # hist[i].valid_acc
       /\ \A j \in 1..Len(hist) : hist[j].valid_acc <= best.value

\* ---------------------------------------------------------------- C16

\* epochs whose last statement (the lr_sched test) is behind
EpochsEnded ==
  IF pc \in {"loop", "done"} /\ epoch # NoEpoch THEN epoch + 1
  ELSE IF epoch = NoEpoch THEN 0 ELSE epoch

\* positions of the lr_sched() calls in the trace
SchedAt == { k \in 1..Len(trace) : trace[k][2] = "sched" }

\* C16: with lr_sched enabled, lr_sched() is called exactly once per
\* completed epoch, after the epoch's three phases, its log append and its
\* checkpoint save (if any) and before any phase of the next epoch; with
\* lr_sched disabled it is never called.
C16_LrSchedOncePerEpoch ==
  /\ lr_steps = Cardinality(SchedAt)
  /\ lr_steps = IF args.lr_sched THEN EpochsEnded ELSE 0
  /\ \A k \in SchedAt :
       LET e == trace[k][1]
       IN  /\ \A j \in SchedAt : trace[j][1] = e => j = k
           /\ \E i \in 1..(k - 1) : trace[i] = <<e, "train", "end">>
           /\ \E i \in 1..(k - 1) : trace[i] = <<e, "valid", "end">>
           /\ \E i \in 1..(k - 1) : trace[i] = <<e, "test", "end">>
           /\ \E i \in 1..(k - 1) : trace[i] = <<e, "log", "done">>
           /\ \A i \in 1..Len(trace) : trace[i][1] <= e => i <= k
           /\ \A i \in 1..Len(trace) : trace[i][1] > e => i > k

C16_Witness ==
  /\ args.lr_sched
  /\ pc = "done"
  /\ lr_steps = 2
  /\ SavedIn(0)
  /\ ~SavedIn(1)
  /\ Len(log) = 2

\* ---------------------------------------------------------------- C17
\* C17: in every epoch the row is appended to the log before the checkpoint
\* save is attempted, new best or not; when the save of a new-best epoch e
\* fails, the log holds the row of epoch e after the unchanged earlier rows,
\* lr_sched() is not called for e and no later epoch runs.
C17_RowBeforeSave ==
  /\ [](/\ pc = "save" =>
             /\ Len(log) = epoch + 1
             /\ log[epoch + 1] = res
             /\ Last(trace) = <<epoch, "log", "done">>
        /\ \A k \in 1..Len(trace) :
             trace[k][2] = "save" =>
               /\ k > 1
               /\ trace[k - 1] = <<trace[k][1], "log", "done">>
        /\ (trace # <<>> /\ Last(trace)[2] = "save" /\ Last(trace)[3] = "raised") =>
             /\ Last(trace)[1] = epoch
             /\ is_best
             /\ pc = "aborted"
             /\ err = "PersistenceFailure"
             /\ Len(log) = epoch + 1
             /\ \A i \in 1..Len(log) : log[i].epoch = i - 1
             /\ log[epoch + 1] = res
             /\ lr_steps = (IF args.lr_sched THEN epoch ELSE 0)
             /\ \A k \in SchedAt : trace[k][1] < epoch
             /\ ~ENABLED Next)
  /\ [][ pc = "save" => log' = log ]_vars

C17_Witness ==
  /\ pc = "aborted"
  /\ epoch = 1
  /\ Last(trace) = <<1, "save", "raised">>
  /\ is_best
  /\ Len(log) = 2
  /\ log[2] = res
  /\ args.lr_sched
  /\ lr_steps = 1
  /\ args.num_epoch = 2

=============================================================================
